---- MODULE Spec2Model ----
(***************************************************************************)
(* finbuddy: the token codec, the session gate and the file-backed record  *)
(* store of server.js, as a state machine.                                  *)
(*                                                                          *)
(* JavaScript strings are TLA+ strings; a character is a string of length   *)
(* one.  JavaScript numbers that occur here are integers.                   *)
(***************************************************************************)
EXTENDS Integers, Sequences, FiniteSets, TLC

VARIABLES users, expenses, goals, now, issued, req, res, gate, touched, call, pending, alive

vars == <<users, expenses, goals, now, issued, req, res, gate, touched, call, pending, alive>>

(***************************************************************************)
(* Bounds of the model.                                                    *)
(***************************************************************************)
MaxDays == 1
MaxIssued == 2
MaxUserId == 2
MaxRecords == 3
MaxShared == 2
MaxPending == 2

\* Identifiers are assigned up to MaxId.
MaxId == MaxRecords

(***************************************************************************)
(* Strings and characters.                                                 *)
(***************************************************************************)
\* The printable ASCII characters, bytes 32 to 126.  The grave accent (byte 96)
\* cannot be written in a TLA+ string; its place holds "?".
Ascii == " !\"#$%&'()*+,-./0123456789:;<=>?@ABCDEFGHIJKLMNOPQRSTUVWXYZ[\\]^_?abcdefghijklmnopqrstuvwxyz{|}~"

CharAt(s, i) == SubSeq(s, i, i)

\* 1-based position of the first occurrence of character c in s, 0 if none.
IndexOf(s, c) ==
  LET at == {i \in 1..Len(s) : CharAt(s, i) = c}
  IN  IF at = {} THEN 0 ELSE CHOOSE i \in at : \A j \in at : i <= j

\* The byte of each printable ASCII character.
AsciiCode == [c \in {CharAt(Ascii, i) : i \in 1..Len(Ascii)} |-> 31 + IndexOf(Ascii, c)]

CharCode(c) == AsciiCode[c]

\* The character of a byte; bytes outside printable ASCII show as "?".
FromCharCode(b) == IF b >= 32 /\ b <= 126 THEN CharAt(Ascii, b - 31) ELSE "?"

Digits == "0123456789"

HexDigits == "0123456789abcdef"

Base64Alphabet == "ABCDEFGHIJKLMNOPQRSTUVWXYZabcdefghijklmnopqrstuvwxyz0123456789+/"

\* String.prototype.split with a one-character separator.
RECURSIVE split(_, _)
split(s, sep) ==
  LET i == IndexOf(s, sep)
  IN  IF i = 0 THEN <<s>>
      ELSE <<SubSeq(s, 1, i - 1)>> \o split(SubSeq(s, i + 1, Len(s)), sep)

\* String.prototype.trim, for the space character.
RECURSIVE trim(_)
trim(s) ==
  IF Len(s) = 0 THEN s
  ELSE IF CharAt(s, 1) = " " THEN trim(SubSeq(s, 2, Len(s)))
  ELSE IF CharAt(s, Len(s)) = " " THEN trim(SubSeq(s, 1, Len(s) - 1))
  ELSE s

\* Decimal text of an integer, as JSON.stringify writes a number.
RECURSIVE NatToString(_)
NatToString(n) ==
  IF n < 10 THEN CharAt(Digits, n + 1)
  ELSE NatToString(n \div 10) \o CharAt(Digits, (n % 10) + 1)

NumberToString(n) == IF n < 0 THEN "-" \o NatToString(0 - n) ELSE NatToString(n)

RECURSIVE DigitsToNat(_)
DigitsToNat(s) ==
  IF Len(s) = 0 THEN 0
  ELSE DigitsToNat(SubSeq(s, 1, Len(s) - 1)) * 10 + (IndexOf(Digits, CharAt(s, Len(s))) - 1)

\* The JSON number grammar restricted to integers: -?(0|[1-9][0-9]*).
IsIntegerText(s) ==
  LET body == IF Len(s) > 0 /\ CharAt(s, 1) = "-" THEN SubSeq(s, 2, Len(s)) ELSE s
  IN  /\ Len(body) > 0
      /\ \A i \in 1..Len(body) : IndexOf(Digits, CharAt(body, i)) > 0
      /\ (Len(body) > 1 => CharAt(body, 1) # "0")

ParseIntegerText(s) ==
  IF CharAt(s, 1) = "-" THEN 0 - DigitsToNat(SubSeq(s, 2, Len(s))) ELSE DigitsToNat(s)

(***************************************************************************)
(* Values that stand for JavaScript's null and for a thrown exception.     *)
(***************************************************************************)
Null == [null |-> TRUE]

Thrown == [thrown |-> TRUE]

(***************************************************************************)
(* JSON for the token payload {userId, exp}.                               *)
(***************************************************************************)
\* JSON.stringify of an object whose fields, in insertion order, are the
\* keys `keys` with integer values obj[k].
RECURSIVE StringifyMembers(_, _)
StringifyMembers(obj, keys) ==
  IF Len(keys) = 0 THEN ""
  ELSE "\"" \o Head(keys) \o "\":" \o NumberToString(obj[Head(keys)])
       \o (IF Len(keys) > 1 THEN "," ELSE "")
       \o StringifyMembers(obj, Tail(keys))

JsonStringify(obj, keys) == "{" \o StringifyMembers(obj, keys) \o "}"

\* One member "key":integer of a flat object; Thrown if it is not of that form.
ParseMember(m) ==
  LET colon == IndexOf(m, ":")
      key   == SubSeq(m, 1, colon - 1)
      val   == SubSeq(m, colon + 1, Len(m))
  IN  IF /\ colon >= 3
         /\ CharAt(key, 1) = "\""
         /\ CharAt(key, Len(key)) = "\""
         /\ IsIntegerText(val)
      THEN [key |-> SubSeq(key, 2, Len(key) - 1), val |-> ParseIntegerText(val)]
      ELSE Thrown

\* JSON.parse on the texts this server signs: a flat object with integer
\* members and no white space.  Any other text yields Thrown (a SyntaxError for
\* text that is not JSON; values of other types are outside this model).
JsonParse(s) ==
  IF Len(s) < 2 \/ CharAt(s, 1) # "{" \/ CharAt(s, Len(s)) # "}" THEN Thrown
  ELSE IF Len(s) = 2 THEN <<>>
  ELSE LET members == split(SubSeq(s, 2, Len(s) - 1), ",")
           parsed  == [i \in 1..Len(members) |-> ParseMember(members[i])]
       IN  IF \E i \in 1..Len(members) : parsed[i] = Thrown THEN Thrown
           ELSE [k \in {parsed[i].key : i \in 1..Len(members)} |->
                   LET last == CHOOSE i \in 1..Len(members) :
                                 /\ parsed[i].key = k
                                 /\ \A j \in (i + 1)..Len(members) : parsed[j].key # k
                   IN  parsed[last].val]

(***************************************************************************)
(* Base64 and hex, as Buffer does them.                                    *)
(***************************************************************************)
Base64Char(n) == CharAt(Base64Alphabet, n + 1)

\* Buffer.from(s).toString('base64') for ASCII text.
RECURSIVE toBase64(_)
toBase64(s) ==
  IF Len(s) = 0 THEN ""
  ELSE LET b1 == CharCode(CharAt(s, 1))
           b2 == IF Len(s) >= 2 THEN CharCode(CharAt(s, 2)) ELSE 0
           b3 == IF Len(s) >= 3 THEN CharCode(CharAt(s, 3)) ELSE 0
           n  == b1 * 65536 + b2 * 256 + b3
       IN  Base64Char(n \div 262144)
           \o Base64Char((n \div 4096) % 64)
           \o (IF Len(s) >= 2 THEN Base64Char((n \div 64) % 64) ELSE "=")
           \o (IF Len(s) >= 3 THEN Base64Char(n % 64) ELSE "=")
           \o toBase64(SubSeq(s, 4, Len(s)))

Base64Value ==
  [c \in {CharAt(Base64Alphabet, i) : i \in 1..Len(Base64Alphabet)} |->
     IndexOf(Base64Alphabet, c) - 1]

Base64Val(c) == Base64Value[c]

\* The base64 digits of s up to the first "=", other characters skipped:
\* Buffer's decoder is lenient and never throws.
RECURSIVE KeepBase64(_)
KeepBase64(s) ==
  IF Len(s) = 0 THEN ""
  ELSE IF Len(s) = 1 THEN (IF s \in DOMAIN Base64Value THEN s ELSE "")
  ELSE KeepBase64(SubSeq(s, 1, Len(s) \div 2))
       \o KeepBase64(SubSeq(s, (Len(s) \div 2) + 1, Len(s)))

Base64Digits(s) ==
  LET stop == IndexOf(s, "=")
  IN  KeepBase64(IF stop = 0 THEN s ELSE SubSeq(s, 1, stop - 1))

RECURSIVE DecodeGroups(_)
DecodeGroups(d) ==
  IF Len(d) < 2 THEN ""
  ELSE LET v1 == Base64Val(CharAt(d, 1))
           v2 == Base64Val(CharAt(d, 2))
           v3 == IF Len(d) >= 3 THEN Base64Val(CharAt(d, 3)) ELSE 0
           v4 == IF Len(d) >= 4 THEN Base64Val(CharAt(d, 4)) ELSE 0
           n  == v1 * 262144 + v2 * 4096 + v3 * 64 + v4
       IN  FromCharCode(n \div 65536)
           \o (IF Len(d) >= 3 THEN FromCharCode((n \div 256) % 256) ELSE "")
           \o (IF Len(d) >= 4 THEN FromCharCode(n % 256) ELSE "")
           \o DecodeGroups(SubSeq(d, 5, Len(d)))

\* Buffer.from(s, 'base64').toString('utf8').
fromBase64(s) == DecodeGroups(Base64Digits(s))

\* Buffer.toString('hex') for ASCII text.
RECURSIVE toHex(_)
toHex(s) ==
  IF Len(s) = 0 THEN ""
  ELSE IF Len(s) = 1
  THEN CharAt(HexDigits, (CharCode(s) \div 16) + 1) \o CharAt(HexDigits, (CharCode(s) % 16) + 1)
  ELSE toHex(SubSeq(s, 1, Len(s) \div 2)) \o toHex(SubSeq(s, (Len(s) \div 2) + 1, Len(s)))

\* crypto.createHash('sha256').update(data).digest('hex').  SHA-256 is taken
\* to be collision-free: the digest is a text of hex digits that determines
\* the data (here, the hex of the data itself).
sha256Hex(data) == toHex(data)

(***************************************************************************)
(* Token codec.                                                            *)
(***************************************************************************)
SECRET == "change_this_secret_in_production"

DAY_MS == 86400000

\* generateToken with the fault of signing the JSON text of the payload instead
\* of its base64 form: what verifyToken recomputes no longer matches.
generateTokenSigningJson(userId, nowMs) ==
  LET payload       == [userId |-> userId, exp |-> nowMs + DAY_MS]
      payloadString == JsonStringify(payload, <<"userId", "exp">>)
      base64Payload == toBase64(payloadString)
      signature     == sha256Hex(payloadString \o SECRET)
  IN  base64Payload \o "." \o signature

\* generateToken(userId), with Date.now() = nowMs.
generateToken(userId, nowMs) ==
  LET payload       == [userId |-> userId, exp |-> nowMs + DAY_MS]
      payloadString == JsonStringify(payload, <<"userId", "exp">>)
      base64Payload == toBase64(payloadString)
      signature     == sha256Hex(base64Payload \o SECRET)
  IN  base64Payload \o "." \o signature

\* The expiry test with the fault of never finding a token expired.
NeverExpired(payload, nowMs) == FALSE

\* payload.exp < Date.now(); a missing exp is undefined, and undefined < n is false.
ExpBefore(payload, nowMs) == "exp" \in DOMAIN payload /\ payload.exp < nowMs

\* verifyToken with the fault of not comparing the signature.
verifyTokenUnchecked(token, nowMs) ==
  IF token = "" THEN Null
  ELSE LET parts == split(token, ".")
       IN  IF Len(parts) # 2 THEN Null
           ELSE LET payloadString == fromBase64(parts[1])
                    payload       == JsonParse(payloadString)
                IN  IF payload = Thrown THEN Null
                    ELSE IF ExpBefore(payload, nowMs) THEN Null
                    ELSE payload

\* verifyToken(token), with Date.now() = nowMs: the payload, or Null.
verifyToken(token, nowMs) ==
  IF token = "" THEN Null
  ELSE LET parts == split(token, ".")
       IN  IF Len(parts) # 2 THEN Null
           ELSE LET base64Payload == parts[1]
                    signature     == parts[2]
                    expectedSig   == sha256Hex(base64Payload \o SECRET)
                IN  IF signature # expectedSig THEN Null
                    ELSE LET payloadString == fromBase64(base64Payload)
                             payload       == JsonParse(payloadString)
                         IN  IF payload = Thrown THEN Null
                             ELSE IF ExpBefore(payload, nowMs) THEN Null
                             ELSE payload

(***************************************************************************)
(* The clock, and the tokens a client can present.                         *)
(***************************************************************************)
UserIds == 1..MaxUserId

\* The instants Date.now() takes: around each day boundary.
Instants ==
  {d * DAY_MS + j : d \in 0..MaxDays, j \in {0 - 1, 0, 1}} \cap Nat

\* Character c replaced by its successor in alphabet (cyclically).
NextChar(alphabet, c) ==
  LET i == IndexOf(alphabet, c)
  IN  IF i = 0 THEN CharAt(alphabet, 1) ELSE CharAt(alphabet, (i % Len(alphabet)) + 1)

\* s with the character at position i replaced by another one of alphabet.
FlipAt(s, i, alphabet) ==
  SubSeq(s, 1, i - 1) \o NextChar(alphabet, CharAt(s, i)) \o SubSeq(s, i + 1, Len(s))

PayloadOf(token) == split(token, ".")[1]

SignatureOf(token) == split(token, ".")[2]

\* Signature segments an attacker can put in place of the one of `token`: a
\* changed, dropped or added character, none, the unkeyed digest, and the
\* signature of another user's token.
OtherSignatures(token) ==
  LET p == PayloadOf(token)
      s == SignatureOf(token)
      e == JsonParse(fromBase64(p)).exp
  IN  ({ FlipAt(s, 1, HexDigits), FlipAt(s, Len(s), HexDigits),
         SubSeq(s, 1, Len(s) - 1), s \o "0", "", sha256Hex(p) }
       \cup {SignatureOf(generateToken(u, e - DAY_MS)) : u \in UserIds}) \ {s}

\* Payload segments an attacker can put in place of the one of `token`: the
\* payload of another user or with a later expiry, a changed character, none,
\* and texts that decode to the same payload.
OtherPayloads(token) ==
  LET p == PayloadOf(token)
      e == JsonParse(fromBase64(p)).exp
  IN  ({ toBase64(JsonStringify([userId |-> u, exp |-> x], <<"userId", "exp">>)) :
           u \in UserIds, x \in {e, e + DAY_MS} }
       \cup { FlipAt(p, 1, Base64Alphabet), p \o "=", p \o " ", "" }) \ {p}

\* Texts that are no token at all: none, one part, three parts.
Malformed(token) ==
  { "", PayloadOf(token), token \o "." \o SignatureOf(token), "Bearer" }

\* The tokens generateToken can return within the bounds.
Issuable == {generateToken(u, t) : u \in UserIds, t \in Instants}

\* What a client can present in place of an issuable token.
Forged ==
  [tok \in Issuable |->
     [signature |-> {PayloadOf(tok) \o "." \o s : s \in OtherSignatures(tok)},
      payload   |-> {p \o "." \o SignatureOf(tok) : p \in OtherPayloads(tok)},
      malformed |-> Malformed(tok)]]

Presentable ==
  Issuable \cup UNION {Forged[tok].signature \cup Forged[tok].payload \cup Forged[tok].malformed :
                         tok \in Issuable}

\* verifyToken tabulated over the presentable tokens and the instants.
verifyTokenAt == [tok \in Presentable, t \in Instants |-> verifyToken(tok, t)]

(***************************************************************************)
(* JavaScript values in request bodies and records.                        *)
(*                                                                          *)
(* id and userId are integers; category, title, date, frequency, username, *)
(* password, fullName and email are strings; amount and target are tagged:  *)
(* [num |-> n] a number, [str |-> s] a string, NaN, Null.  A field that   *)
(* is absent from an object is undefined.                                   *)
(***************************************************************************)
NaN == [nan |-> TRUE]

Has(obj, f) == f \in DOMAIN obj

EmptyObject == [f \in {} |-> 0]

\* A request body that is not JSON text.
NotJson == [notJson |-> TRUE]

\* parseBody(req): the parsed body, {} when it does not parse.
parseBody(body) == IF body = NotJson THEN EmptyObject ELSE body

\* !obj[f] for a string field.
BlankString(obj, f) == ~Has(obj, f) \/ obj[f] = ""

\* !obj[f] for a tagged field.
BlankValue(obj, f) ==
  ~Has(obj, f) \/ obj[f] \in {[num |-> 0], [str |-> ""], NaN, Null}

\* An optional sign followed by decimal digits.
IsDecimalText(s) ==
  LET body == IF Len(s) > 0 /\ CharAt(s, 1) \in {"-", "+"} THEN SubSeq(s, 2, Len(s)) ELSE s
  IN  /\ Len(body) > 0
      /\ \A i \in 1..Len(body) : IndexOf(Digits, CharAt(body, i)) > 0

\* Number(v), for numbers and for strings that are empty, integers or no number.
Number(v) ==
  IF Has(v, "num") THEN v
  ELSE IF Has(v, "str")
  THEN IF v.str = "" THEN [num |-> 0]
       ELSE IF IsDecimalText(v.str)
       THEN [num |-> IF CharAt(v.str, 1) = "-"
                     THEN 0 - DigitsToNat(SubSeq(v.str, 2, Len(v.str)))
                     ELSE IF CharAt(v.str, 1) = "+"
                     THEN DigitsToNat(SubSeq(v.str, 2, Len(v.str)))
                     ELSE DigitsToNat(v.str)]
       ELSE NaN
  ELSE IF v = Null THEN [num |-> 0]
  ELSE NaN

\* What JSON.stringify followed by JSON.parse makes of a tagged value.
JsonValue(v) == IF v = NaN THEN Null ELSE v

\* What JSON.stringify followed by JSON.parse makes of a record.
JsonRecord(r) ==
  [f \in DOMAIN r |-> IF f \in {"amount", "target"} THEN JsonValue(r[f]) ELSE r[f]]

\* A merge in which the stored fields win over the fields of the body.
MergeKeepingStored(record, updates) == record @@ updates

\* { ...record, ...updates }
Merge(record, updates) == updates @@ record

Pad2(n) == IF n < 10 THEN "0" \o NatToString(n) ELSE NatToString(n)

Pad3(n) == IF n < 100 THEN "0" \o Pad2(n) ELSE NatToString(n)

\* new Date(ms).toISOString(), for instants in January 1970.
toISOString(ms) ==
  "1970-01-" \o Pad2((ms \div DAY_MS) + 1)
  \o "T" \o Pad2((ms % DAY_MS) \div 3600000)
  \o ":" \o Pad2((ms % 3600000) \div 60000)
  \o ":" \o Pad2((ms % 60000) \div 1000)
  \o "." \o Pad3(ms % 1000) \o "Z"

\* parseInt(text, 10): the integer the text starts with, or NaN.
RECURSIVE LeadingDigits(_)
LeadingDigits(s) ==
  IF Len(s) = 0 \/ IndexOf(Digits, CharAt(s, 1)) = 0 THEN ""
  ELSE CharAt(s, 1) \o LeadingDigits(SubSeq(s, 2, Len(s)))

parseInt(text) ==
  LET t    == trim(text)
      neg  == Len(t) > 0 /\ CharAt(t, 1) = "-"
      rest == IF Len(t) > 0 /\ CharAt(t, 1) \in {"-", "+"} THEN SubSeq(t, 2, Len(t)) ELSE t
      ds   == LeadingDigits(rest)
  IN  IF ds = "" THEN NaN
      ELSE [num |-> IF neg THEN 0 - DigitsToNat(ds) ELSE DigitsToNat(ds)]

(***************************************************************************)
(* Files.                                                                  *)
(***************************************************************************)
\* A file that does not exist, and a file that holds a JSON array.
Missing == [exists |-> FALSE, data |-> <<>>]

File(data) == [exists |-> TRUE, data |-> data]

\* A file that exists and that fs.readFile fails on at present (EACCES, EIO);
\* data is the array it holds.
Unreadable(data) == [exists |-> TRUE, data |-> data, fault |-> "unreadable"]

\* A file whose text JSON.parse throws on.
Invalid == [exists |-> TRUE, data |-> <<>>, fault |-> "invalid"]

\* A file whose text is JSON and no array, such as {} or null.
NotArray == [exists |-> TRUE, data |-> <<>>, fault |-> "notArray"]

Fault(file) == IF Has(file, "fault") THEN file.fault ELSE "none"

\* A load that passes on what the file holds whether or not it can be read.
readJsonStored(file) == file.data

\* readJson(filePath): the stored array; [] when fs.readFile gives an error
\* (no file, no access), when JSON.parse throws, and when the value parsed is
\* no array.
readJson(file) ==
  IF ~file.exists \/ Fault(file) = "unreadable" THEN <<>>
  ELSE IF Fault(file) = "invalid" THEN <<>>
  ELSE IF Fault(file) = "notArray" THEN <<>>
  ELSE file.data

\* The file writeJson(filePath, data) leaves.
writeJson(data) == File([i \in 1..Len(data) |-> JsonRecord(data[i])])

\* A JSON array as a response body.
Items(list) == [items |-> list]

\* hashPassword(password, salt)
hashPassword(password, salt) == sha256Hex(password \o salt)

\* A search that returns the last match, not the first.
findLastIndex(records, id, userId) ==
  LET at == {i \in 1..Len(records) :
               /\ id # NaN
               /\ records[i].id = id.num
               /\ records[i].userId = userId}
  IN  IF at = {} THEN 0 ELSE CHOOSE i \in at : \A j \in at : i >= j

\* array.findIndex(r => r.id === id && r.userId === userId), 1-based; 0 for -1.
findIndex(records, id, userId) ==
  LET at == {i \in 1..Len(records) :
               /\ id # NaN
               /\ records[i].id = id.num
               /\ records[i].userId = userId}
  IN  IF at = {} THEN 0 ELSE CHOOSE i \in at : \A j \in at : i <= j

\* The filter with the fault of keeping every record.
filterNothing(records, userId) == records

\* array.filter(r => r.userId === userId)
filterByUser(records, userId) == SelectSeq(records, LAMBDA r : r.userId = userId)

\* The next identifier with the fault of repeating the last one.
nextIdRepeating(records) == IF Len(records) > 0 THEN records[Len(records)].id ELSE 1

\* records.length ? records[records.length - 1].id + 1 : 1
nextId(records) == IF Len(records) > 0 THEN records[Len(records)].id + 1 ELSE 1

\* array.splice(index, 1) applied to records: what is left.
splice(records, index) ==
  SubSeq(records, 1, index - 1) \o SubSeq(records, index + 1, Len(records))

(***************************************************************************)
(* The session gate.                                                       *)
(***************************************************************************)
\* s.replace(pattern, '') : the first occurrence of pattern removed.
removeFirst(s, pattern) ==
  LET at == {i \in 1..(Len(s) - Len(pattern) + 1) : SubSeq(s, i, i + Len(pattern) - 1) = pattern}
  IN  IF at = {} THEN s
      ELSE LET i == CHOOSE i \in at : \A j \in at : i <= j
           IN  SubSeq(s, 1, i - 1) \o SubSeq(s, i + Len(pattern), Len(s))

\* authHeader.replace('Bearer ', '').trim()
bearerToken(authHeader) == trim(removeFirst(authHeader, "Bearer "))

\* One forgery of each kind from an issued token: the first character of the
\* signature changed, the payload of the next user identifier under the same
\* signature, a third part added.
Forgery(token, kind) ==
  CASE kind = "signature" ->
         PayloadOf(token) \o "." \o FlipAt(SignatureOf(token), 1, HexDigits)
    [] kind = "payload" ->
         LET payload == JsonParse(fromBase64(PayloadOf(token)))
             other   == [payload EXCEPT !.userId = (payload.userId % MaxUserId) + 1]
         IN  toBase64(JsonStringify(other, <<"userId", "exp">>)) \o "." \o SignatureOf(token)
    [] OTHER -> token \o "." \o SignatureOf(token)

Forgeries ==
  [tok \in Issuable, k \in {"signature", "payload", "malformed"} |-> Forgery(tok, k)]

\* The Authorization headers a client sends; "" stands for no header.
Headers ==
  {""} \cup {"Bearer " \o tok : tok \in Issuable}
       \cup {"Bearer " \o Forgeries[tok, k] :
               tok \in Issuable, k \in {"signature", "payload", "malformed"}}

\* verifyToken(bearerToken(header)) tabulated over the headers and the instants.
gateAt == [h \in Headers, t \in Instants |-> verifyToken(bearerToken(h), t)]

\* What a client holds to authenticate with: the header, how it was made
\* (kind) and the user the underlying token was issued to.
NoCredential == [header |-> "", kind |-> "missing", userId |-> 0, at |-> 0]

IssuedCredentials ==
  {[header |-> "Bearer " \o i.token, kind |-> "issued", userId |-> i.userId, at |-> i.at] :
     i \in issued}

ForgedCredentials ==
  {[header |-> "Bearer " \o Forgeries[i.token, k], kind |-> k, userId |-> i.userId, at |-> i.at] :
     i \in issued, k \in {"signature", "payload", "malformed"}}

\* The request and the response as the variables keep them.
Request(method, path, id, body, cred) ==
  [method |-> method, path |-> path, id |-> id, body |-> body,
   kind |-> cred.kind, bearer |-> cred.userId]

Response(status, body) == [status |-> status, body |-> body]

NotRun == [ran |-> FALSE]

\* The stored user with this id has the digest of this password.
HasPassword(us, userId, password) ==
  \E i \in 1..Len(us) :
    us[i].id = userId /\ us[i].hashed = hashPassword(password, us[i].salt)

\* A gate that looks the user of the token up in the users collection and
\* accepts the token only while the password "secret123" is stored.
SessionRevocable(cred) ==
  IF HasPassword(readJson(users), cred.userId, "secret123")
  THEN gateAt[cred.header, now]
  ELSE Null

\* const payload = verifyToken(token), on the header of the request, now.
Session(cred) == gateAt[cred.header, now]

Gate(payload) == [ran |-> TRUE, payload |-> payload]

\* The routes that are open to all: OPTIONS, POST /api/register, POST /api/login.
IsPublic(method, path) ==
  \/ method = "OPTIONS"
  \/ method = "POST" /\ path \in {"/api/register", "/api/login"}

\* The rejection with the fault of coming after the collections were loaded.
UnauthorizedAfterLoad(method, path, segment, body, cred) ==
  \E payload \in {Session(cred)} :
    /\ alive
    /\ ~IsPublic(method, path)
    /\ payload = Null
    /\ req' = Request(method, path, segment, body, cred)
    /\ gate' = Gate(payload)
    /\ res' = Response(401, [error |-> "Unauthorized"])
    /\ touched' = {"users", "expenses", "goals"}
    /\ UNCHANGED <<users, expenses, goals, now, issued, call, pending, alive>>

\* The rejection with the fault of telling a missing token from a refused one.
UnauthorizedWithCause(method, path, segment, body, cred) ==
  \E payload \in {Session(cred)} :
    /\ alive
    /\ ~IsPublic(method, path)
    /\ payload = Null
    /\ req' = Request(method, path, segment, body, cred)
    /\ gate' = Gate(payload)
    /\ res' = Response(401, [error |-> IF cred.header = "" THEN "Missing token"
                                       ELSE "Invalid token"])
    /\ touched' = {}
    /\ UNCHANGED <<users, expenses, goals, now, issued, call, pending, alive>>

\* A request on any other route whose token verifyToken rejects.
Unauthorized(method, path, segment, body, cred) ==
  \E payload \in {Session(cred)} :
    /\ alive
    /\ ~IsPublic(method, path)
    /\ payload = Null
    /\ req' = Request(method, path, segment, body, cred)
    /\ gate' = Gate(payload)
    /\ res' = Response(401, [error |-> "Unauthorized"])
    /\ touched' = {}
    /\ UNCHANGED <<users, expenses, goals, now, issued, call, pending, alive>>

\* What every accepted request sets besides its response and its files.
Authorized(method, path, id, body, cred, payload) ==
  /\ alive
  /\ payload # Null
  /\ req' = Request(method, path, id, body, cred)
  /\ gate' = Gate(payload)
  /\ UNCHANGED <<now, issued, call, pending, alive>>

(***************************************************************************)
(* handleApi, one action per route.                                        *)
(***************************************************************************)
Public(method, path, body, status, rbody, files) ==
  /\ alive
  /\ req' = Request(method, path, "", body, NoCredential)
  /\ gate' = NotRun
  /\ res' = Response(status, rbody)
  /\ touched' = files
  /\ UNCHANGED <<now, call, pending, alive>>

\* OPTIONS on any path under /api.
Options(path) ==
  /\ Public("OPTIONS", path, EmptyObject, 204, EmptyObject, {})
  /\ UNCHANGED <<users, expenses, goals, issued>>

\* A registration that does not look for the username in the collection.
RegisterUnchecked(body, salt) ==
  LET b  == parseBody(body)
      us == readJson(users)
  IN  IF BlankString(b, "username") \/ BlankString(b, "password")
      THEN /\ Public("POST", "/api/register", body, 400,
                     [error |-> "Username and password are required"], {})
           /\ UNCHANGED <<users, expenses, goals, issued>>
      ELSE LET user == [id |-> nextId(us), username |-> b.username, salt |-> salt,
                        hashed |-> hashPassword(b.password, salt)]
           IN  /\ users' = writeJson(Append(us, user))
               /\ Public("POST", "/api/register", body, 201,
                         [message |-> "User registered successfully"], {"users"})
               /\ UNCHANGED <<expenses, goals, issued>>

\* POST /api/register; salt is what crypto.randomBytes(16).toString('hex') returns.
Register(body, salt) ==
  LET b  == parseBody(body)
      us == readJson(users)
  IN  IF BlankString(b, "username") \/ BlankString(b, "password")
      THEN /\ Public("POST", "/api/register", body, 400,
                     [error |-> "Username and password are required"], {})
           /\ UNCHANGED <<users, expenses, goals, issued>>
      ELSE IF \E i \in 1..Len(us) : us[i].username = b.username
      THEN /\ Public("POST", "/api/register", body, 409,
                     [error |-> "Username already exists"], {"users"})
           /\ UNCHANGED <<users, expenses, goals, issued>>
      ELSE LET user == [id |-> nextId(us), username |-> b.username, salt |-> salt,
                        hashed |-> hashPassword(b.password, salt)]
           IN  /\ users' = writeJson(Append(us, user))
               /\ Public("POST", "/api/register", body, 201,
                         [message |-> "User registered successfully"], {"users"})
               /\ UNCHANGED <<expenses, goals, issued>>

\* array.find(u => u.username === username), 1-based; 0 when there is none.
\* A search that takes the first user, whatever the username.
findFirstUser(us, b) == IF Len(us) > 0 THEN 1 ELSE 0

findByUsername(us, b) ==
  LET at == {i \in 1..Len(us) : Has(b, "username") /\ us[i].username = b.username}
  IN  IF at = {} THEN 0 ELSE CHOOSE i \in at : \A j \in at : i <= j

\* POST /api/login
Login(body) ==
  LET b        == parseBody(body)
      us       == readJson(users)
      index    == findByUsername(us, b)
      password == IF Has(b, "password") THEN b.password ELSE "undefined"
  IN  IF index = 0 \/ hashPassword(password, us[index].salt) # us[index].hashed
      THEN /\ Public("POST", "/api/login", body, 401,
                     [error |-> "Invalid username or password"], {"users"})
           /\ UNCHANGED <<users, expenses, goals, issued>>
      ELSE LET token == generateToken(us[index].id, now)
               entry == [token |-> token, userId |-> us[index].id, at |-> now,
                         username |-> b.username]
           IN  /\ Cardinality(issued \cup {entry}) <= MaxIssued
               /\ issued' = issued \cup {entry}
               /\ Public("POST", "/api/login", body, 200, [token |-> token], {"users"})
               /\ UNCHANGED <<users, expenses, goals>>

\* GET /api/expenses
GetExpenses(cred) ==
  \E payload \in {Session(cred)} :
    /\ Authorized("GET", "/api/expenses", "", EmptyObject, cred, payload)
    /\ res' = Response(200, Items(filterByUser(readJson(expenses), payload.userId)))
    /\ touched' = {"expenses"}
    /\ UNCHANGED <<users, expenses, goals>>

\* A create that answers 500 and writes nothing when the expenses file is
\* there and could not be loaded.
PostExpensesClosed(cred, body) ==
  \E payload \in {Session(cred)} :
    /\ Authorized("POST", "/api/expenses", "", body, cred, payload)
    /\ LET b    == parseBody(body)
           list == readJson(expenses)
       IN  IF BlankString(b, "category") \/ BlankValue(b, "amount")
           THEN /\ res' = Response(400, [error |-> "Category and amount are required"])
                /\ touched' = {}
                /\ UNCHANGED <<users, expenses, goals>>
           ELSE IF Fault(expenses) # "none"
           THEN /\ res' = Response(500, [error |-> "Storage error"])
                /\ touched' = {"expenses"}
                /\ UNCHANGED <<users, expenses, goals>>
           ELSE LET expense == [id |-> nextId(list), userId |-> payload.userId,
                                category |-> b.category, amount |-> Number(b.amount),
                                date |-> IF BlankString(b, "date")
                                         THEN toISOString(now) ELSE b.date]
                IN  /\ Len(list) + Len(readJson(goals)) < MaxRecords
                    /\ nextId(list) <= MaxId
                    /\ expenses' = writeJson(Append(list, expense))
                    /\ res' = Response(201, JsonRecord(expense))
                    /\ touched' = {"expenses"}
                    /\ UNCHANGED <<users, goals>>

\* POST /api/expenses
PostExpenses(cred, body) ==
  \E payload \in {Session(cred)} :
    /\ Authorized("POST", "/api/expenses", "", body, cred, payload)
    /\ LET b    == parseBody(body)
           list == readJson(expenses)
       IN  IF BlankString(b, "category") \/ BlankValue(b, "amount")
           THEN /\ res' = Response(400, [error |-> "Category and amount are required"])
                /\ touched' = {}
                /\ UNCHANGED <<users, expenses, goals>>
           ELSE LET expense == [id |-> nextId(list), userId |-> payload.userId,
                                category |-> b.category, amount |-> Number(b.amount),
                                date |-> IF BlankString(b, "date")
                                         THEN toISOString(now) ELSE b.date]
                IN  /\ Len(list) + Len(readJson(goals)) < MaxRecords
                    /\ nextId(list) <= MaxId
                    /\ expenses' = writeJson(Append(list, expense))
                    /\ res' = Response(201, JsonRecord(expense))
                    /\ touched' = {"expenses"}
                    /\ UNCHANGED <<users, goals>>

\* PUT /api/expenses/:id
PutExpense(cred, segment, body) ==
  \E payload \in {Session(cred)} :
    /\ Authorized("PUT", "/api/expenses/:id", segment, body, cred, payload)
    /\ LET list  == readJson(expenses)
           index == findIndex(list, parseInt(segment), payload.userId)
       IN  IF index = 0
           THEN /\ res' = Response(404, [error |-> "Expense not found"])
                /\ UNCHANGED <<users, expenses, goals>>
           ELSE LET merged == Merge(list[index], parseBody(body))
                IN  /\ expenses' = writeJson([list EXCEPT ![index] = merged])
                    /\ res' = Response(200, JsonRecord(merged))
                    /\ UNCHANGED <<users, goals>>
    /\ touched' = {"expenses"}

\* DELETE /api/expenses/:id
DeleteExpense(cred, segment) ==
  \E payload \in {Session(cred)} :
    /\ Authorized("DELETE", "/api/expenses/:id", segment, EmptyObject, cred, payload)
    /\ LET list  == readJson(expenses)
           index == findIndex(list, parseInt(segment), payload.userId)
       IN  IF index = 0
           THEN /\ res' = Response(404, [error |-> "Expense not found"])
                /\ UNCHANGED <<users, expenses, goals>>
           ELSE /\ expenses' = writeJson(splice(list, index))
                /\ res' = Response(200, JsonRecord(list[index]))
                /\ UNCHANGED <<users, goals>>
    /\ touched' = {"expenses"}

\* GET /api/summary; the body is the per-category sum over userExpenses.
GetSummary(cred) ==
  \E payload \in {Session(cred)} :
    /\ Authorized("GET", "/api/summary", "", EmptyObject, cred, payload)
    /\ res' = Response(200, [summaryOf |-> filterByUser(readJson(expenses), payload.userId)])
    /\ touched' = {"expenses"}
    /\ UNCHANGED <<users, expenses, goals>>

\* GET /api/advice; the body is total, summary and suggestions over userExpenses.
GetAdvice(cred) ==
  \E payload \in {Session(cred)} :
    /\ Authorized("GET", "/api/advice", "", EmptyObject, cred, payload)
    /\ res' = Response(200, [adviceOn |-> filterByUser(readJson(expenses), payload.userId)])
    /\ touched' = {"expenses"}
    /\ UNCHANGED <<users, expenses, goals>>

\* POST /api/ai-advice; outcome is what the environment does: no API key, an
\* answer, an answer that does not parse, a failed request.
PostAiAdvice(cred, body, outcome) ==
  \E payload \in {Session(cred)} :
    /\ Authorized("POST", "/api/ai-advice", "", body, cred, payload)
    /\ res' = CASE outcome = "noKey" ->
                     Response(200, [suggestions |-> "AI integration not configured"])
                [] outcome = "answer" ->
                     Response(200, [suggestions |-> "adviceText"])
                [] outcome = "parseFailed" ->
                     Response(500, [error |-> "Failed to parse AI response"])
                [] OTHER ->
                     Response(500, [error |-> "External AI request failed"])
    /\ touched' = {"expenses"}
    /\ UNCHANGED <<users, expenses, goals>>

\* GET /api/goals
GetGoals(cred) ==
  \E payload \in {Session(cred)} :
    /\ Authorized("GET", "/api/goals", "", EmptyObject, cred, payload)
    /\ res' = Response(200, Items(filterByUser(readJson(goals), payload.userId)))
    /\ touched' = {"goals"}
    /\ UNCHANGED <<users, expenses, goals>>

\* POST /api/goals
PostGoals(cred, body) ==
  \E payload \in {Session(cred)} :
    /\ Authorized("POST", "/api/goals", "", body, cred, payload)
    /\ LET b    == parseBody(body)
           list == readJson(goals)
       IN  IF BlankString(b, "title") \/ BlankValue(b, "target")
           THEN /\ res' = Response(400, [error |-> "Title and target are required"])
                /\ touched' = {}
                /\ UNCHANGED <<users, expenses, goals>>
           ELSE LET goal == [id |-> nextId(list), userId |-> payload.userId,
                             title |-> b.title, target |-> Number(b.target),
                             frequency |-> IF BlankString(b, "frequency")
                                           THEN "monthly" ELSE b.frequency]
                IN  /\ Len(list) + Len(readJson(expenses)) < MaxRecords
                    /\ nextId(list) <= MaxId
                    /\ goals' = writeJson(Append(list, goal))
                    /\ res' = Response(201, JsonRecord(goal))
                    /\ touched' = {"goals"}
                    /\ UNCHANGED <<users, expenses>>

\* PUT /api/goals/:id
PutGoal(cred, segment, body) ==
  \E payload \in {Session(cred)} :
    /\ Authorized("PUT", "/api/goals/:id", segment, body, cred, payload)
    /\ LET list  == readJson(goals)
           index == findIndex(list, parseInt(segment), payload.userId)
       IN  IF index = 0
           THEN /\ res' = Response(404, [error |-> "Goal not found"])
                /\ UNCHANGED <<users, expenses, goals>>
           ELSE LET merged == Merge(list[index], parseBody(body))
                IN  /\ goals' = writeJson([list EXCEPT ![index] = merged])
                    /\ res' = Response(200, JsonRecord(merged))
                    /\ UNCHANGED <<users, expenses>>
    /\ touched' = {"goals"}

\* DELETE /api/goals/:id
DeleteGoal(cred, segment) ==
  \E payload \in {Session(cred)} :
    /\ Authorized("DELETE", "/api/goals/:id", segment, EmptyObject, cred, payload)
    /\ LET list  == readJson(goals)
           index == findIndex(list, parseInt(segment), payload.userId)
       IN  IF index = 0
           THEN /\ res' = Response(404, [error |-> "Goal not found"])
                /\ UNCHANGED <<users, expenses, goals>>
           ELSE /\ goals' = writeJson(splice(list, index))
                /\ res' = Response(200, JsonRecord(list[index]))
                /\ UNCHANGED <<users, expenses>>
    /\ touched' = {"goals"}

\* array.findIndex(u => u.id === userId), 1-based; 0 for -1.
findUser(us, userId) ==
  LET at == {i \in 1..Len(us) : us[i].id = userId}
  IN  IF at = {} THEN 0 ELSE CHOOSE i \in at : \A j \in at : i <= j

\* A profile view that returns the stored user as it is.
GetProfileWhole(cred) ==
  \E payload \in {Session(cred)} :
    /\ Authorized("GET", "/api/profile", "", EmptyObject, cred, payload)
    /\ LET us    == readJson(users)
           index == findUser(us, payload.userId)
       IN  res' = IF index = 0
                  THEN Response(404, [error |-> "User not found"])
                  ELSE Response(200, us[index])
    /\ touched' = {"users"}
    /\ UNCHANGED <<users, expenses, goals>>

\* GET /api/profile
GetProfile(cred) ==
  \E payload \in {Session(cred)} :
    /\ Authorized("GET", "/api/profile", "", EmptyObject, cred, payload)
    /\ LET us    == readJson(users)
           index == findUser(us, payload.userId)
       IN  res' = IF index = 0
                  THEN Response(404, [error |-> "User not found"])
                  ELSE Response(200,
                         [username |-> us[index].username,
                          fullName |-> IF Has(us[index], "fullName")
                                       THEN us[index].fullName ELSE "",
                          email    |-> IF Has(us[index], "email")
                                       THEN us[index].email ELSE ""])
    /\ touched' = {"users"}
    /\ UNCHANGED <<users, expenses, goals>>

\* The profile fields of body that are strings, as the handler assigns them.
ProfileUpdates(b, salt) ==
  LET named == [f \in {"fullName", "email"} \cap DOMAIN b |-> b[f]]
  IN  IF Has(b, "password") /\ trim(b.password) # ""
      THEN [salt |-> salt, hashed |-> hashPassword(trim(b.password), salt)] @@ named
      ELSE named

\* PUT /api/profile; salt is what crypto.randomBytes(16).toString('hex') returns.
PutProfile(cred, body, salt) ==
  \E payload \in {Session(cred)} :
    /\ Authorized("PUT", "/api/profile", "", body, cred, payload)
    /\ LET us    == readJson(users)
           index == findUser(us, payload.userId)
       IN  IF index = 0
           THEN /\ res' = Response(404, [error |-> "User not found"])
                /\ UNCHANGED <<users, expenses, goals>>
           ELSE /\ users' = writeJson([us EXCEPT ![index] =
                                         Merge(us[index], ProfileUpdates(parseBody(body), salt))])
                /\ res' = Response(200, [message |-> "Profile updated"])
                /\ UNCHANGED <<expenses, goals>>
    /\ touched' = {"users"}

\* Any other method and path under /api.
RouteNotFound(cred, method, path) ==
  \E payload \in {Session(cred)} :
    /\ Authorized(method, path, "", EmptyObject, cred, payload)
    /\ res' = Response(404, [error |-> "API route not found"])
    /\ touched' = {}
    /\ UNCHANGED <<users, expenses, goals>>

(***************************************************************************)
(* handleApi between its await points.  A request that has loaded a        *)
(* collection and has not saved it yet keeps what it loaded in its slot of *)
(* pending; other requests run in between.  A slot keeps the answer of its *)
(* last request until the next one takes it.                               *)
(***************************************************************************)
\* A request slot no request has used.
Idle == [route |-> "idle"]

Answered(request, path, response) ==
  [route |-> "answered", path |-> path, body |-> request.body,
   loaded |-> request.loaded, res |-> response]

Free(p) == pending[p].route \in {"idle", "answered"}

\* POST /api/register up to the end of `await readJson(usersFile)` and the
\* checks on what it read.
RegisterLoad(p, body) ==
  LET b  == parseBody(body)
      us == readJson(users)
  IN  /\ alive
      /\ Free(p)
      /\ IF BlankString(b, "username") \/ BlankString(b, "password")
         THEN /\ Public("POST", "/api/register", body, 400,
                        [error |-> "Username and password are required"], {})
              /\ UNCHANGED <<users, expenses, goals, issued>>
         ELSE IF \E i \in 1..Len(us) : us[i].username = b.username
         THEN /\ Public("POST", "/api/register", body, 409,
                        [error |-> "Username already exists"], {"users"})
              /\ UNCHANGED <<users, expenses, goals, issued>>
         ELSE /\ pending' = [pending EXCEPT ![p] =
                               [route |-> "register", body |-> body, loaded |-> us]]
              /\ UNCHANGED <<users, expenses, goals, now, issued, req, res, gate,
                             touched, call, alive>>

\* A registration that pushes the user on the collection as it is at the save,
\* not as it was read.
RegisterSaveAppending(p, salt) ==
  /\ alive
  /\ pending[p].route = "register"
  /\ LET b    == parseBody(pending[p].body)
         us   == readJson(users)
         user == [id |-> nextId(us), username |-> b.username, salt |-> salt,
                  hashed |-> hashPassword(b.password, salt)]
         response == Response(201, [message |-> "User registered successfully"])
     IN  /\ users' = writeJson(Append(us, user))
         /\ req' = Request("POST", "/api/register", "", pending[p].body, NoCredential)
         /\ gate' = NotRun
         /\ res' = response
         /\ touched' = {"users"}
         /\ pending' = [pending EXCEPT ![p] = Answered(pending[p], "/api/register", response)]
  /\ UNCHANGED <<expenses, goals, now, issued, call, alive>>

\* POST /api/register from there: the user is pushed on what was read, the
\* whole is written, 201 is answered.
RegisterSave(p, salt) ==
  /\ alive
  /\ pending[p].route = "register"
  /\ LET b    == parseBody(pending[p].body)
         us   == pending[p].loaded
         user == [id |-> nextId(us), username |-> b.username, salt |-> salt,
                  hashed |-> hashPassword(b.password, salt)]
         response == Response(201, [message |-> "User registered successfully"])
     IN  /\ users' = writeJson(Append(us, user))
         /\ req' = Request("POST", "/api/register", "", pending[p].body, NoCredential)
         /\ gate' = NotRun
         /\ res' = response
         /\ touched' = {"users"}
         /\ pending' = [pending EXCEPT ![p] = Answered(pending[p], "/api/register", response)]
  /\ UNCHANGED <<expenses, goals, now, issued, call, alive>>

\* POST /api/expenses up to the end of `await readJson(expensesFile)`.
CreateLoad(p, cred, body) ==
  \E payload \in {Session(cred)} :
    LET b == parseBody(body)
    IN  /\ alive
        /\ Free(p)
        /\ payload # Null
        /\ IF BlankString(b, "category") \/ BlankValue(b, "amount")
           THEN /\ Authorized("POST", "/api/expenses", "", body, cred, payload)
                /\ res' = Response(400, [error |-> "Category and amount are required"])
                /\ touched' = {}
                /\ UNCHANGED <<users, expenses, goals>>
           ELSE /\ pending' = [pending EXCEPT ![p] =
                                 [route |-> "create", body |-> body, cred |-> cred,
                                  payload |-> payload, loaded |-> readJson(expenses)]]
                /\ UNCHANGED <<users, expenses, goals, now, issued, req, res, gate,
                               touched, call, alive>>

\* A create that pushes the expense on the collection as it is at the save,
\* not as it was read.
CreateSaveReloading(p) ==
  /\ alive
  /\ pending[p].route = "create"
  /\ LET b       == parseBody(pending[p].body)
         list    == readJson(expenses)
         expense == [id |-> nextId(list), userId |-> pending[p].payload.userId,
                     category |-> b.category, amount |-> Number(b.amount),
                     date |-> IF BlankString(b, "date")
                              THEN toISOString(now) ELSE b.date]
         response == Response(201, JsonRecord(expense))
     IN  /\ expenses' = writeJson(Append(list, expense))
         /\ req' = Request("POST", "/api/expenses", "", pending[p].body, pending[p].cred)
         /\ gate' = Gate(pending[p].payload)
         /\ res' = response
         /\ touched' = {"expenses"}
         /\ pending' = [pending EXCEPT ![p] = Answered(pending[p], "/api/expenses", response)]
  /\ UNCHANGED <<users, goals, now, issued, call, alive>>

\* POST /api/expenses from there: the expense is pushed on what was read, the
\* whole is written, 201 is answered.
CreateSave(p) ==
  /\ alive
  /\ pending[p].route = "create"
  /\ LET b       == parseBody(pending[p].body)
         list    == pending[p].loaded
         expense == [id |-> nextId(list), userId |-> pending[p].payload.userId,
                     category |-> b.category, amount |-> Number(b.amount),
                     date |-> IF BlankString(b, "date")
                              THEN toISOString(now) ELSE b.date]
         response == Response(201, JsonRecord(expense))
     IN  /\ expenses' = writeJson(Append(list, expense))
         /\ req' = Request("POST", "/api/expenses", "", pending[p].body, pending[p].cred)
         /\ gate' = Gate(pending[p].payload)
         /\ res' = response
         /\ touched' = {"expenses"}
         /\ pending' = [pending EXCEPT ![p] = Answered(pending[p], "/api/expenses", response)]
  /\ UNCHANGED <<users, goals, now, issued, call, alive>>

\* PUT /api/profile up to the end of `await readJson(usersFile)` and the
\* search in what it read.
ProfileLoad(p, cred, body) ==
  \E payload \in {Session(cred)} :
    LET us == readJson(users)
    IN  /\ alive
        /\ Free(p)
        /\ payload # Null
        /\ IF findUser(us, payload.userId) = 0
           THEN /\ Authorized("PUT", "/api/profile", "", body, cred, payload)
                /\ res' = Response(404, [error |-> "User not found"])
                /\ touched' = {"users"}
                /\ UNCHANGED <<users, expenses, goals>>
           ELSE /\ pending' = [pending EXCEPT ![p] =
                                 [route |-> "profile", body |-> body, cred |-> cred,
                                  payload |-> payload, loaded |-> us]]
                /\ UNCHANGED <<users, expenses, goals, now, issued, req, res, gate,
                               touched, call, alive>>

\* PUT /api/profile from there: the user is changed in what was read, the
\* whole is written, 200 is answered.
ProfileSave(p, salt) ==
  /\ alive
  /\ pending[p].route = "profile"
  /\ LET us    == pending[p].loaded
         index == findUser(us, pending[p].payload.userId)
         response == Response(200, [message |-> "Profile updated"])
     IN  /\ users' = writeJson([us EXCEPT ![index] =
                        Merge(us[index], ProfileUpdates(parseBody(pending[p].body), salt))])
         /\ req' = Request("PUT", "/api/profile", "", pending[p].body, pending[p].cred)
         /\ gate' = Gate(pending[p].payload)
         /\ res' = response
         /\ touched' = {"users"}
         /\ pending' = [pending EXCEPT ![p] = Answered(pending[p], "/api/profile", response)]
  /\ UNCHANGED <<expenses, goals, now, issued, call, alive>>

(***************************************************************************)
(* The disk under the server: files get damaged, reads and writes fail.    *)
(***************************************************************************)

Damaged(file, fault) ==
  CASE fault = "missing"    -> Missing
    [] fault = "unreadable" -> Unreadable(file.data)
    [] fault = "invalid"    -> Invalid
    [] fault = "notArray"   -> NotArray

\* The file of a collection is removed, loses its read access or gets other
\* content from outside the server.
Damage(name, fault) ==
  /\ IF name = "users"
     THEN /\ users.exists /\ Fault(users) = "none"
          /\ users' = Damaged(users, fault)
          /\ UNCHANGED expenses
     ELSE /\ expenses.exists /\ Fault(expenses) = "none"
          /\ expenses' = Damaged(expenses, fault)
          /\ UNCHANGED users
  /\ UNCHANGED <<goals, now, issued, req, res, gate, touched, call, pending, alive>>

\* A file that could not be read can be read again.
Repair(name) ==
  /\ IF name = "users"
     THEN /\ Fault(users) = "unreadable"
          /\ users' = File(users.data)
          /\ UNCHANGED expenses
     ELSE /\ Fault(expenses) = "unreadable"
          /\ expenses' = File(expenses.data)
          /\ UNCHANGED users
  /\ UNCHANGED <<goals, now, issued, req, res, gate, touched, call, pending, alive>>

\* A call readJson(filePath) on the file of a collection as it is.
Load(name) ==
  /\ alive
  /\ \E file \in {IF name = "users" THEN users ELSE expenses} :
       call' = [fn |-> "readJson", name |-> name, file |-> file, ret |-> readJson(file)]
  /\ UNCHANGED <<users, expenses, goals, now, issued, req, res, gate, touched, pending, alive>>

\* No response: res.writeHead and res.end were not called.
NoResponse == Response(0, EmptyObject)

\* The request passes the checks of its route and comes to await writeJson.
ReachesWrite(method, path, segment, body, userId) ==
  LET b == parseBody(body)
  IN  CASE method = "POST" /\ path = "/api/register" ->
             /\ ~(BlankString(b, "username") \/ BlankString(b, "password"))
             /\ ~\E i \in 1..Len(readJson(users)) : readJson(users)[i].username = b.username
        [] method = "POST" /\ path = "/api/expenses" ->
             ~(BlankString(b, "category") \/ BlankValue(b, "amount"))
        [] method = "POST" /\ path = "/api/goals" ->
             ~(BlankString(b, "title") \/ BlankValue(b, "target"))
        [] method \in {"PUT", "DELETE"} /\ path = "/api/expenses/:id" ->
             findIndex(readJson(expenses), parseInt(segment), userId) # 0
        [] method \in {"PUT", "DELETE"} /\ path = "/api/goals/:id" ->
             findIndex(readJson(goals), parseInt(segment), userId) # 0
        [] method = "PUT" /\ path = "/api/profile" ->
             findUser(readJson(users), userId) # 0
        [] OTHER -> FALSE

\* A request whose writeJson rejects: fs.writeFile gives an error, `await
\* writeJson` throws out of handleApi and out of the callback of
\* http.createServer, which catches nothing.  No response is written; the
\* rejection is unhandled, on which Node ends the process or only warns,
\* depending on its version and flags.  The file is left as it was.
FailedWrite(method, path, segment, body, cred) ==
  \E payload \in {Session(cred)} :
    /\ alive
    /\ IsPublic(method, path) \/ payload # Null
    /\ ReachesWrite(method, path, segment, body,
                    IF payload = Null THEN 0 ELSE payload.userId)
    /\ req' = Request(method, path, segment, body, cred)
    /\ gate' = IF IsPublic(method, path) THEN NotRun ELSE Gate(payload)
    /\ res' = NoResponse
    /\ touched' = {CASE path \in {"/api/register", "/api/profile"}      -> "users"
                     [] path \in {"/api/expenses", "/api/expenses/:id"} -> "expenses"
                     [] path \in {"/api/goals", "/api/goals/:id"}       -> "goals"}
    /\ \E running \in BOOLEAN : alive' = running
    /\ UNCHANGED <<users, expenses, goals, now, issued, call, pending>>

(***************************************************************************)
(* The initial state: no file written yet, no request handled.             *)
(***************************************************************************)
Init ==
  /\ users = Missing /\ expenses = Missing /\ goals = Missing
  /\ now = 0
  /\ issued = {}
  /\ req = Request("none", "", "", EmptyObject, NoCredential)
  /\ res = Response(0, EmptyObject)
  /\ gate = NotRun
  /\ touched = {}
  /\ call = [fn |-> "none"]
  /\ pending = [p \in 1..MaxPending |-> Idle]
  /\ alive = TRUE

\* Date.now() moves on to instant t.
Tick(t) ==
  /\ t > now
  /\ t \in Instants
  /\ now' = t
  /\ UNCHANGED <<users, expenses, goals, issued, req, res, gate, touched, call, pending, alive>>

\* A call generateToken(u).
Issue(u) ==
  /\ Cardinality(issued) < MaxIssued
  /\ issued' = issued \cup {[token |-> generateToken(u, now), userId |-> u, at |-> now]}
  /\ call' = [fn |-> "generateToken", userId |-> u, at |-> now,
              ret |-> generateToken(u, now)]
  /\ UNCHANGED <<users, expenses, goals, now, req, res, gate, touched, pending, alive>>

\* A call verifyToken(t), where t comes from the issued token `base` as is
\* (kind "issued"), with another signature or with another payload.
Verify(t, kind, base) ==
  /\ call' = [fn |-> "verifyToken", token |-> t, at |-> now, kind |-> kind,
              base |-> base, ret |-> verifyTokenAt[t, now]]
  /\ UNCHANGED <<users, expenses, goals, now, issued, req, res, gate, touched, pending, alive>>

VerifyIssued == \E i \in issued : Verify(i.token, "issued", i)

VerifySignatureChanged ==
  \E i \in issued : \E t \in Forged[i.token].signature : Verify(t, "signature", i)

VerifyPayloadChanged ==
  \E i \in issued : \E t \in Forged[i.token].payload : Verify(t, "payload", i)

VerifyMalformed ==
  \E i \in issued : \E t \in Forged[i.token].malformed : Verify(t, "malformed", i)

TokenNext ==
  \/ \E t \in Instants : Tick(t)
  \/ \E u \in UserIds : Issue(u)
  \/ VerifyIssued
  \/ VerifySignatureChanged
  \/ VerifyPayloadChanged
  \/ VerifyMalformed

SpecToken == Init /\ [][TokenNext]_vars

(***************************************************************************)
(* Requests executed one at a time by two users on their records.          *)
(***************************************************************************)
Usernames == {"alice", "bob"}

Credentials == {[username |-> u, password |-> "secret123"] : u \in Usernames}

RegisterBodies ==
  Credentials \cup {[username |-> "alice"], [password |-> "secret123"], NotJson}

LoginBodies ==
  Credentials \cup {[username |-> "alice", password |-> "wrong"], [username |-> "alice"]}

Salts == {"0a1b"}

\* The last path segment of PUT and DELETE: the text of an identifier.
Segments == {NatToString(i) : i \in 1..MaxId}

\* Two users share MaxShared records and identifiers.
SharedSegments == {NatToString(i) : i \in 1..MaxShared}

Shared(file) ==
  /\ Len(readJson(expenses)) + Len(readJson(goals)) < MaxShared
  /\ nextId(readJson(file)) <= MaxShared

\* Bodies of PUT: no field, an id, a userId.
Updates == {EmptyObject, [id |-> 1], [userId |-> 2]}

ExpenseBodies == {[category |-> "food", amount |-> [num |-> 42]], [category |-> "food"]}

GoalBodies == {[title |-> "car", target |-> [str |-> "1000"]], [target |-> [num |-> 5]]}

\* Methods and paths of the routes behind the gate, and one that is no route.
Routes ==
  {<<"GET", "/api/expenses">>, <<"POST", "/api/expenses">>,
   <<"PUT", "/api/expenses/:id">>, <<"DELETE", "/api/expenses/:id">>,
   <<"GET", "/api/summary">>, <<"GET", "/api/advice">>, <<"POST", "/api/ai-advice">>,
   <<"GET", "/api/goals">>, <<"POST", "/api/goals">>,
   <<"PUT", "/api/goals/:id">>, <<"DELETE", "/api/goals/:id">>,
   <<"GET", "/api/profile">>, <<"PUT", "/api/profile">>,
   <<"GET", "/api/register">>, <<"DELETE", "/api/profile">>}

Next ==
  \/ \E body \in RegisterBodies, salt \in Salts : Register(body, salt)
  \/ \E body \in LoginBodies : Login(body)
  \/ \E cred \in IssuedCredentials : GetExpenses(cred)
  \/ Shared(expenses) /\ \E cred \in IssuedCredentials, body \in ExpenseBodies :
       PostExpenses(cred, body)
  \/ \E cred \in IssuedCredentials, segment \in SharedSegments, body \in Updates :
       PutExpense(cred, segment, body)
  \/ \E cred \in IssuedCredentials, segment \in SharedSegments : DeleteExpense(cred, segment)
  \/ \E cred \in IssuedCredentials : GetGoals(cred)
  \/ Shared(goals) /\ \E cred \in IssuedCredentials, body \in GoalBodies :
       PostGoals(cred, body)
  \/ \E cred \in IssuedCredentials, segment \in SharedSegments, body \in Updates :
       PutGoal(cred, segment, body)
  \/ \E cred \in IssuedCredentials, segment \in SharedSegments : DeleteGoal(cred, segment)

Spec == Init /\ [][Next]_vars

(***************************************************************************)
(* Every route, with every kind of credential, while the clock moves.      *)
(***************************************************************************)
AnyCredential == {NoCredential} \cup IssuedCredentials \cup ForgedCredentials

Alice == [username |-> "alice", password |-> "secret123"]

DatedExpense == [category |-> "food", amount |-> [num |-> 42], date |-> "2024-01-15"]

WeeklyGoal == [title |-> "car", target |-> [num |-> 1000], frequency |-> "weekly"]

\* A profile update with a new name and a new password.
Renamed == [fullName |-> "Alice A", password |-> "changed1"]

AiOutcomes == {"noKey", "answer", "parseFailed", "requestFailed"}

GateNext ==
  \/ Tick(now + DAY_MS + 1)
  \/ Options("/api/expenses")
  \/ \E salt \in Salts : Register(Alice, salt)
  \/ issued = {} /\ Login(Alice)
  \/ \E cred \in AnyCredential : \E r \in Routes : Unauthorized(r[1], r[2], "1", EmptyObject, cred)
  \/ \E cred \in AnyCredential : GetExpenses(cred)
  \/ readJson(expenses) = <<>> /\ \E cred \in AnyCredential : PostExpenses(cred, DatedExpense)
  \/ \E cred \in AnyCredential : \E segment \in {"1", "x"} : PutExpense(cred, segment, EmptyObject)
  \/ \E cred \in AnyCredential : \E segment \in {"1", "x"} : DeleteExpense(cred, segment)
  \/ \E cred \in AnyCredential : GetSummary(cred)
  \/ \E cred \in AnyCredential : GetAdvice(cred)
  \/ \E cred \in AnyCredential : \E outcome \in AiOutcomes : PostAiAdvice(cred, EmptyObject, outcome)
  \/ \E cred \in AnyCredential : GetGoals(cred)
  \/ readJson(goals) = <<>> /\ \E cred \in AnyCredential : PostGoals(cred, WeeklyGoal)
  \/ \E cred \in AnyCredential : \E segment \in {"1", "x"} : PutGoal(cred, segment, EmptyObject)
  \/ \E cred \in AnyCredential : \E segment \in {"1", "x"} : DeleteGoal(cred, segment)
  \/ \E cred \in AnyCredential : GetProfile(cred)
  \/ \E cred \in AnyCredential : \E salt \in Salts : PutProfile(cred, Renamed, salt)
  \/ \E cred \in AnyCredential : RouteNotFound(cred, "GET", "/api/register")

SpecGate == Init /\ [][GateNext]_vars

(***************************************************************************)
(* One user creating, updating and deleting records with any JSON body.    *)
(***************************************************************************)
\* Bodies of POST /api/expenses: a positive, a negative and a non-numeric amount.
OwnExpenseBodies ==
  {[category |-> "food", amount |-> [num |-> 42]],
   [category |-> "food", amount |-> [num |-> 0 - 5]],
   [category |-> "food", amount |-> [str |-> "abc"]]}

\* Bodies of PUT: an id, an amount.
OwnUpdates == {[id |-> 1], [id |-> 2], [amount |-> [num |-> 0 - 1]]}

OwnNext ==
  \/ \E salt \in Salts : Register(Alice, salt)
  \/ issued = {} /\ Login(Alice)
  \/ \E cred \in IssuedCredentials, body \in OwnExpenseBodies : PostExpenses(cred, body)
  \/ \E cred \in IssuedCredentials, segment \in Segments, body \in OwnUpdates :
       PutExpense(cred, segment, body)
  \/ \E cred \in IssuedCredentials, segment \in Segments : DeleteExpense(cred, segment)
  \/ \E cred \in IssuedCredentials : PostGoals(cred, WeeklyGoal)
  \/ \E cred \in IssuedCredentials, segment \in Segments : DeleteGoal(cred, segment)

SpecOwn == Init /\ [][OwnNext]_vars

(***************************************************************************)
(* Requests of two clients that overlap between their load and their save. *)
(***************************************************************************)
Slots == 1..MaxPending


RaceExpenseBodies == {DatedExpense, [category |-> "rent", amount |-> [num |-> 900]]}

RaceNext ==
  \/ \E p \in Slots, body \in Credentials : RegisterLoad(p, body)
  \/ \E p \in Slots, salt \in Salts : RegisterSave(p, salt)
  \/ issued = {} /\ Login(Alice)
  \/ /\ Len(readJson(expenses)) < MaxShared
     /\ \E p \in Slots, cred \in IssuedCredentials, body \in RaceExpenseBodies :
          CreateLoad(p, cred, body)
  \/ \E p \in Slots : CreateSave(p)
  \/ \E p \in Slots, cred \in IssuedCredentials : ProfileLoad(p, cred, [password |-> "changed1"])
  \/ \E p \in Slots, salt \in Salts : ProfileSave(p, salt)
  \/ \E cred \in IssuedCredentials : GetProfile(cred)

SpecRace == Init /\ [][RaceNext]_vars

(***************************************************************************)
(* One user's requests on a disk that fails.                               *)
(***************************************************************************)
\* Requests that write: method, path, last segment, body.
StorageWrites ==
  {<<"POST", "/api/register", "", c>> : c \in Credentials}
    \cup {<<"POST", "/api/expenses", "", DatedExpense>>,
          <<"PUT", "/api/expenses/:id", "1", [amount |-> [num |-> 7]]>>,
          <<"DELETE", "/api/expenses/:id", "1", EmptyObject>>,
          <<"POST", "/api/goals", "", WeeklyGoal>>,
          <<"PUT", "/api/profile", "", Renamed>>}

StorageNext ==
  \/ \E body \in Credentials, salt \in Salts : Register(body, salt)
  \/ issued = {} /\ Login(Alice)
  \/ /\ Len(readJson(expenses)) < MaxShared
     /\ \E cred \in IssuedCredentials, body \in RaceExpenseBodies : PostExpenses(cred, body)
  \/ /\ Fault(users) = "none" /\ Fault(expenses) = "none"
     /\ \E name \in {"users", "expenses"}, fault \in {"missing", "unreadable", "invalid", "notArray"} :
                Damage(name, fault)
  \/ \E name \in {"users", "expenses"} : Repair(name)
  \/ \E name \in {"users", "expenses"} : Load(name)
  \/ \E w \in StorageWrites, cred \in {NoCredential} \cup IssuedCredentials :
       /\ IsPublic(w[1], w[2]) <=> cred = NoCredential
       /\ FailedWrite(w[1], w[2], w[3], w[4], cred)

SpecStorage == Init /\ [][StorageNext]_vars

(***************************************************************************)
(* Two users who change their passwords and log in again.                  *)
(***************************************************************************)
\* Passwords sent to PUT /api/profile: plain, with a blank on either side,
\* blank.
NewPasswords == {"changed1", " changed1 ", "  "}

PasswordNext ==
  \/ \E body \in Credentials, salt \in Salts : Register(body, salt)
  \/ \E u \in Usernames, pw \in {"secret123"} \cup NewPasswords :
       Login([username |-> u, password |-> pw])
  \/ \E cred \in IssuedCredentials, pw \in NewPasswords, salt \in Salts :
       PutProfile(cred, [password |-> pw], salt)

SpecPassword == Init /\ [][PasswordNext]_vars

(***************************************************************************)
(* Properties of the token codec, over SpecToken.                          *)
(***************************************************************************)
\* C2: verifyToken accepts a token only if its signature segment equals the
\* signature recomputed over its payload segment and its expiry instant is
\* strictly later than the current time; verified at exactly its expiry
\* instant (now = exp) a correctly signed token is rejected.
AcceptsOnlySignedAndUnexpired ==
  (call.fn = "verifyToken" /\ call.ret # Null) =>
     /\ Len(split(call.token, ".")) = 2
     /\ SignatureOf(call.token) = sha256Hex(PayloadOf(call.token) \o SECRET)
     /\ call.ret.exp > call.at

\* C3: for every user identifier u and every issuance instant,
\* verifyToken(generateToken(u)) evaluated before the expiry the token carries
\* returns a payload whose userId is u.
RoundTrip ==
  (call.fn = "verifyToken" /\ call.kind = "issued") =>
     LET carried == JsonParse(fromBase64(PayloadOf(call.token)))
     IN  call.at < carried.exp => (call.ret # Null /\ call.ret.userId = call.base.userId)

\* A token of user 2 verified after its issuance instant and before its expiry.
RoundTripWitness ==
  /\ call.fn = "verifyToken" /\ call.kind = "issued"
  /\ call.base.userId = 2
  /\ call.base.at < call.at /\ call.at < call.base.at + DAY_MS
  /\ call.ret # Null /\ call.ret.userId = 2

\* C4: a token that differs from an issued token only in the signature
\* segment, or only in the payload segment, is rejected by verifyToken,
\* whatever the current time.
TamperDetected ==
  (call.fn = "verifyToken" /\ call.token # call.base.token
                           /\ Len(split(call.token, ".")) = 2) =>
     ((\/ PayloadOf(call.token) = PayloadOf(call.base.token)
       \/ SignatureOf(call.token) = SignatureOf(call.base.token)) => call.ret = Null)

\* The payload of another user under the signature of an issued token,
\* verified before that token expires, is rejected.
TamperDetectedWitness ==
  /\ call.fn = "verifyToken" /\ call.kind = "payload"
  /\ Len(split(call.token, ".")) = 2
  /\ SignatureOf(call.token) = SignatureOf(call.base.token)
  /\ LET forged == JsonParse(fromBase64(PayloadOf(call.token)))
     IN  forged # Thrown /\ forged.userId # call.base.userId
  /\ call.at < call.base.at + DAY_MS
  /\ call.ret = Null

\* C5: a token issued at instant T carries expiry T + 24 hours; it is
\* accepted at every instant earlier than T + 24h and rejected at every
\* instant later than T + 24h.
ExpiryBoundary ==
  /\ call.fn = "generateToken" =>
       JsonParse(fromBase64(PayloadOf(call.ret))).exp = call.at + 24 * 60 * 60 * 1000
  /\ (call.fn = "verifyToken" /\ call.kind = "issued") =>
       /\ call.at < call.base.at + 24 * 60 * 60 * 1000 => call.ret # Null
       /\ call.at > call.base.at + 24 * 60 * 60 * 1000 => call.ret = Null

\* An issued token verified one millisecond after T + 24h is rejected.
ExpiryBoundaryWitness ==
  /\ call.fn = "verifyToken" /\ call.kind = "issued"
  /\ call.at = call.base.at + 24 * 60 * 60 * 1000 + 1
  /\ call.ret = Null

(***************************************************************************)
(* Properties of the session gate, over SpecGate.                          *)
(***************************************************************************)
\* C1: on every route other than POST /api/register, POST /api/login and
\* OPTIONS, no collection is read or written unless verifyToken has accepted
\* the bearer token of the request; a request whose token is rejected gets
\* 401 and leaves users, expenses and goals unchanged.
GateBeforeAccess ==
  /\ []((~IsPublic(req.method, req.path) /\ touched # {}) =>
          (gate.ran /\ gate.payload # Null))
  /\ []((gate.ran /\ gate.payload = Null) => (res.status = 401 /\ touched = {}))
  /\ [][(gate'.ran /\ gate'.payload = Null) => UNCHANGED <<users, expenses, goals>>]_vars

\* A DELETE under a token with a changed signature is rejected while the
\* expense it names is stored.
GateBeforeAccessWitness ==
  /\ req.method = "DELETE" /\ req.path = "/api/expenses/:id" /\ req.kind = "signature"
  /\ gate.ran /\ gate.payload = Null
  /\ res.status = 401 /\ touched = {}
  /\ Len(readJson(expenses)) = 1 /\ NatToString(readJson(expenses)[1].id) = req.id

\* C6: on a route behind the gate a missing token, a token that does not
\* split into exactly two parts, a token with a wrong signature and an
\* expired token all get status 401 with body error 'Unauthorized': the
\* response does not depend on which check failed.
UniformRejection ==
  (gate.ran /\ (\/ req.kind \in {"missing", "malformed", "signature", "payload"}
                \/ gate.payload = Null)) =>
     res = Response(401, [error |-> "Unauthorized"])

\* An issued token presented after its expiry gets the same 401.
UniformRejectionWitness ==
  /\ gate.ran /\ req.kind = "issued" /\ gate.payload = Null
  /\ \E i \in issued : i.at + DAY_MS < now
  /\ res = Response(401, [error |-> "Unauthorized"])

\* C19: verifyToken looks at the token and the clock only: a request that
\* presents a token issued to a user is accepted as that user at every instant
\* before the expiry of the token, whatever the collections hold by then, a
\* changed password of that user included.
TokensNotRevoked ==
  req.kind = "issued" =>
    \A i \in issued :
      (i.userId = req.bearer /\ now < i.at + DAY_MS) =>
        /\ gate.ran
        /\ gate.payload # Null
        /\ gate.payload.userId = i.userId
        /\ res.status # 401

\* The user has changed the password, and a later GET under the token issued
\* before the change has been accepted.
TokensNotRevokedWitness ==
  /\ req.kind = "issued" /\ req.method = "GET"
  /\ gate.ran /\ gate.payload # Null /\ gate.payload.userId = req.bearer
  /\ res.status = 200
  /\ \E i \in issued : i.userId = req.bearer /\ now < i.at + DAY_MS
  /\ HasPassword(readJson(users), req.bearer, "changed1")
  /\ ~HasPassword(readJson(users), req.bearer, "secret123")

\* The salts and password digests in the users collection.
Secrets ==
  {readJson(users)[i].salt : i \in 1..Len(readJson(users))}
    \cup {readJson(users)[i].hashed : i \in 1..Len(readJson(users))}

SecretFields == {"salt", "hashed"}

\* C20: the profile GET /api/profile returns holds username, fullName and
\* email and nothing else, none of them a stored salt or digest; and no
\* response of any route has a salt or digest field, neither in its body nor
\* in the records it lists.
NoSecretInResponse ==
  /\ (req.method = "GET" /\ req.path = "/api/profile" /\ res.status = 200) =>
       /\ DOMAIN res.body = {"username", "fullName", "email"}
       /\ \A f \in DOMAIN res.body : res.body[f] \notin Secrets
  /\ DOMAIN res.body \cap SecretFields = {}
  /\ Has(res.body, "items") =>
       \A i \in 1..Len(res.body.items) : DOMAIN res.body.items[i] \cap SecretFields = {}

\* The profile of a stored user, who has a salt and a digest, has been
\* returned with the new name.
NoSecretInResponseWitness ==
  /\ req.method = "GET" /\ req.path = "/api/profile" /\ res.status = 200
  /\ res.body = [username |-> "alice", fullName |-> "Alice A", email |-> ""]
  /\ \E i \in 1..Len(readJson(users)) :
       /\ readJson(users)[i].id = req.bearer
       /\ SecretFields \subseteq DOMAIN readJson(users)[i]

(***************************************************************************)
(* Properties of the records of two users, over Spec.                      *)
(***************************************************************************)
\* C7: the list GET /api/expenses (and GET /api/goals) returns to an
\* authenticated user is exactly the stored records whose userId is the
\* identifier of that user, so it holds no record of another user.
IsolationOnRead ==
  /\ (req.method = "GET" /\ req.path = "/api/expenses") =>
       /\ res.status = 200
       /\ res.body.items = SelectSeq(readJson(expenses), LAMBDA r : r.userId = req.bearer)
  /\ (req.method = "GET" /\ req.path = "/api/goals") =>
       /\ res.status = 200
       /\ res.body.items = SelectSeq(readJson(goals), LAMBDA r : r.userId = req.bearer)

\* A user lists their expenses while an expense of another user is stored.
IsolationOnReadWitness ==
  /\ req.method = "GET" /\ req.path = "/api/expenses" /\ res.status = 200
  /\ Len(res.body.items) = 1
  /\ \E i \in 1..Len(readJson(expenses)) : readJson(expenses)[i].userId # req.bearer

\* C8: a PUT or DELETE by user A on the identifier of a record owned by
\* another user B gets the 404 of an identifier that does not exist, and
\* leaves the collection unchanged.
ForeignTargetNotFound ==
  [][/\ (/\ req'.method \in {"PUT", "DELETE"} /\ req'.path = "/api/expenses/:id"
         /\ \E i \in 1..Len(readJson(expenses)) :
              /\ NatToString(readJson(expenses)[i].id) = req'.id
              /\ readJson(expenses)[i].userId # req'.bearer) =>
          (res' = Response(404, [error |-> "Expense not found"]) /\ expenses' = expenses)
     /\ (/\ req'.method \in {"PUT", "DELETE"} /\ req'.path = "/api/goals/:id"
         /\ \E i \in 1..Len(readJson(goals)) :
              /\ NatToString(readJson(goals)[i].id) = req'.id
              /\ readJson(goals)[i].userId # req'.bearer) =>
          (res' = Response(404, [error |-> "Goal not found"]) /\ goals' = goals)]_vars

\* C9: no create, update or delete authenticated as user A changes the set
\* of expense or goal records whose userId is another user B: none added,
\* none altered, none removed.
NoCrossUserChange ==
  [][\A b \in UserIds \ {req'.bearer} :
       /\ {readJson(expenses')[i] : i \in {j \in 1..Len(readJson(expenses')) :
                                            readJson(expenses')[j].userId = b}}
          = {readJson(expenses)[i] : i \in {j \in 1..Len(readJson(expenses)) :
                                             readJson(expenses)[j].userId = b}}
       /\ {readJson(goals')[i] : i \in {j \in 1..Len(readJson(goals')) :
                                         readJson(goals')[j].userId = b}}
          = {readJson(goals)[i] : i \in {j \in 1..Len(readJson(goals)) :
                                          readJson(goals)[j].userId = b}}]_vars

\* C10: in every state reached by create, update and delete requests on a
\* collection, no two records of that collection have the same id.
IdentifiersUnique ==
  /\ \A i, j \in 1..Len(readJson(expenses)) :
       i # j => readJson(expenses)[i].id # readJson(expenses)[j].id
  /\ \A i, j \in 1..Len(readJson(goals)) :
       i # j => readJson(goals)[i].id # readJson(goals)[j].id

(***************************************************************************)
(* Properties of the identifiers and amounts of one user's records, over   *)
(* SpecOwn.                                                                *)
(***************************************************************************)
\* C11: N create requests executed one after another on an empty collection
\* assign the identifiers 1, 2, ..., N in that order, with no gaps and no
\* repeats: a create on a collection whose identifiers are 1..n, in that
\* order (n = 0 for the empty one), assigns n + 1 and stores it last.
CreatesCountUp ==
  [][/\ (/\ req'.method = "POST" /\ req'.path = "/api/expenses" /\ res'.status = 201
         /\ \A i \in 1..Len(readJson(expenses)) : readJson(expenses)[i].id = i) =>
          /\ res'.body.id = Len(readJson(expenses)) + 1
          /\ Len(readJson(expenses')) = Len(readJson(expenses)) + 1
          /\ \A i \in 1..Len(readJson(expenses')) : readJson(expenses')[i].id = i
     /\ (/\ req'.method = "POST" /\ req'.path = "/api/goals" /\ res'.status = 201
         /\ \A i \in 1..Len(readJson(goals)) : readJson(goals)[i].id = i) =>
          /\ res'.body.id = Len(readJson(goals)) + 1
          /\ Len(readJson(goals')) = Len(readJson(goals)) + 1
          /\ \A i \in 1..Len(readJson(goals')) : readJson(goals')[i].id = i]_vars

\* The third create in a row on the expenses has been given identifier 3.
CreatesCountUpWitness ==
  /\ req.method = "POST" /\ req.path = "/api/expenses" /\ res.status = 201
  /\ res.body.id = 3
  /\ Len(readJson(expenses)) = 3
  /\ \A i \in 1..3 : readJson(expenses)[i].id = i

\* C12: the identifier given to a newly created user, expense or goal is one
\* plus the maximum id among the records then in that collection, or 1 if the
\* collection is empty.
NextIsMaxPlusOne ==
  [][/\ (req'.method = "POST" /\ req'.path = "/api/expenses" /\ res'.status = 201) =>
          LET ids == {readJson(expenses)[i].id : i \in 1..Len(readJson(expenses))}
          IN  res'.body.id = IF ids = {} THEN 1
                             ELSE 1 + CHOOSE m \in ids : \A x \in ids : x <= m
     /\ (req'.method = "POST" /\ req'.path = "/api/goals" /\ res'.status = 201) =>
          LET ids == {readJson(goals)[i].id : i \in 1..Len(readJson(goals))}
          IN  res'.body.id = IF ids = {} THEN 1
                             ELSE 1 + CHOOSE m \in ids : \A x \in ids : x <= m
     /\ (req'.method = "POST" /\ req'.path = "/api/register" /\ res'.status = 201) =>
          LET ids == {readJson(users)[i].id : i \in 1..Len(readJson(users))}
          IN  readJson(users')[Len(readJson(users'))].id =
                IF ids = {} THEN 1 ELSE 1 + CHOOSE m \in ids : \A x \in ids : x <= m]_vars

\* C17: in every reachable state every stored expense has a positive amount
\* and exactly one owning user identifier, whatever create and update
\* requests were made.
AmountsPositive ==
  \A i \in 1..Len(readJson(expenses)) :
    LET e == readJson(expenses)[i]
    IN  /\ Has(e, "amount")
        /\ Has(e.amount, "num")
        /\ e.amount.num > 0
        /\ Has(e, "userId")
        /\ e.userId \in UserIds

(***************************************************************************)
(* Properties of overlapping requests, over SpecRace.                      *)
(***************************************************************************)
Register201(q) ==
  /\ q.route = "answered"
  /\ q.path = "/api/register"
  /\ q.res.status = 201

\* C13: in every reachable state of the users collection no two users have
\* the same username, however registrations interleave between their load
\* and their save.
UsernamesUnique ==
  LET us == readJson(users)
  IN  \A i, j \in 1..Len(us) : us[i].username = us[j].username => i = j

\* Two registrations of one username that both loaded the empty collection
\* have both been answered 201, and the collection holds that username once.
UsernamesUniqueWitness ==
  /\ \A p \in Slots : /\ Register201(pending[p])
                      /\ pending[p].body.username = "alice"
                      /\ pending[p].loaded = <<>>
  /\ Len(readJson(users)) = 1
  /\ readJson(users)[1].username = "alice"

Create201(q) ==
  /\ q.route = "answered"
  /\ q.path = "/api/expenses"
  /\ q.res.status = 201

\* C16: when a create on the expenses collection saves while another create
\* that loaded the same collection has saved already (both loaded before
\* either saved), both are answered 201 with the same identifier, and the
\* collection then holds what was loaded and the record of the later save
\* only: the record of the earlier one is lost.
LostUpdate ==
  [][\A p, q \in Slots :
       (/\ p # q
        /\ pending[p].route = "create" /\ pending'[p].route = "answered"
        /\ pending[q].route = "answered" /\ pending[q].path = "/api/expenses"
        /\ pending[q].loaded = pending[p].loaded)
       => (/\ Create201(pending[q]) /\ Create201(pending'[p])
           /\ res' = pending'[p].res
           /\ res'.body.id = pending[q].res.body.id
           /\ readJson(expenses') = Append(pending[p].loaded, res'.body))]_vars

\* Two creates of different expenses loaded the empty collection, both were
\* answered 201 with identifier 1, and the collection holds the record of one
\* of them only.
LostUpdateWitness ==
  /\ \A p \in Slots : Create201(pending[p]) /\ pending[p].loaded = <<>>
  /\ pending[1].res.body # pending[2].res.body
  /\ pending[1].res.body.id = pending[2].res.body.id
  /\ \E p \in Slots : readJson(expenses) = <<pending[p].res.body>>

StoredUsernames(file) == {readJson(file)[i].username : i \in 1..Len(readJson(file))}

\* C18: a user whose registration was answered 201 stays in the users
\* collection in every later state, however registrations and profile
\* updates interleave: no step removes a stored user.
UsersStay ==
  [][StoredUsernames(users) \subseteq StoredUsernames(users')]_vars

\* C27: whenever the gate yields the user identifier u for a request, the
\* token presented was issued by an earlier login with the username of the
\* user that is stored with id u.  Stated for the requests handled in one
\* step, where the gate and the load see the same users collection.
AuthenticationSound ==
  [][(/\ pending' = pending
      /\ <<req', res', gate'>> # <<req, res, gate>>
      /\ gate'.ran /\ gate'.payload # Null) =>
       \E i \in issued :
         /\ i.userId = gate'.payload.userId
         /\ \E j \in 1..Len(readJson(users)) :
              /\ readJson(users)[j].id = i.userId
              /\ readJson(users)[j].username = i.username]_vars

(***************************************************************************)
(* Properties of registration and login, over Spec.                        *)
(***************************************************************************)
IsRegister(r) == r.method = "POST" /\ r.path = "/api/register"

Absent(b, f) == ~Has(b, f) \/ b[f] = ""

Stored(us, b) == \E i \in 1..Len(us) : us[i].username = b.username

IsLogin(r) == r.method = "POST" /\ r.path = "/api/login"

\* password + salt for the password of a body; a missing one reads "undefined".

\* The stored users a login body names and whose digest its password gives.
Matching(us, b) ==
  {i \in 1..Len(us) : /\ Has(b, "username")
                      /\ us[i].username = b.username
                      /\ hashPassword(IF Has(b, "password") THEN b.password ELSE "undefined",
                                      us[i].salt) = us[i].hashed}

\* C15: a login is answered with a token exactly when a stored user has the
\* given username and the given password hashes, with the stored salt, to the
\* stored digest, and the token carries that user's id; every other login
\* gets one and the same 401 response; no login changes the users collection.
LoginDecides ==
  [][IsLogin(req') =>
       LET us      == readJson(users)
           matches == Matching(us, parseBody(req'.body))
       IN  /\ users' = users
           /\ IF matches = {}
              THEN res' = Response(401, [error |-> "Invalid username or password"])
              ELSE \E payload \in {gateAt["Bearer " \o res'.body.token, now']} :
                     /\ res'.status = 200
                     /\ payload # Null
                     /\ \E i \in matches : payload.userId = us[i].id]_vars

\* The second registered user has logged in and holds a token with id 2.
LoginDecidesWitness ==
  /\ IsLogin(req)
  /\ res.status = 200
  /\ \E payload \in {gateAt["Bearer " \o res.body.token, now]} :
       payload # Null /\ payload.userId = 2
  /\ \E i \in Matching(readJson(users), parseBody(req.body)) : readJson(users)[i].id = 2

(***************************************************************************)
(* Properties of update and delete, over Spec.                             *)
(***************************************************************************)
\* Record i of before is the record the request addresses and owns.
Addressed(before, i, r) ==
  /\ i \in 1..Len(before)
  /\ NatToString(before[i].id) = r.id
  /\ before[i].userId = r.bearer

\* after is before with the fields of b laid over record i and nothing else.
MergedAt(before, after, i, b) ==
  /\ Len(after) = Len(before)
  /\ \A j \in 1..Len(before) : j # i => after[j] = before[j]
  /\ DOMAIN after[i] = DOMAIN before[i] \cup DOMAIN b
  /\ \A f \in DOMAIN b : after[i][f] = b[f]
  /\ \A f \in DOMAIN before[i] \ DOMAIN b : after[i][f] = before[i][f]

IsPut(r, path) == r.method = "PUT" /\ r.path = path

\* C21: a PUT answered 200 on an expense or goal is a shallow merge into a
\* record the requester addressed and owned: each field of the body has the
\* body's value, each other field of the stored record keeps its value, the
\* record is where it was, and every other record is as it was.
ShallowMerge ==
  [][/\ (IsPut(req', "/api/expenses/:id") /\ res'.status = 200) =>
          \E i \in 1..Len(readJson(expenses)) :
            /\ Addressed(readJson(expenses), i, req')
            /\ MergedAt(readJson(expenses), readJson(expenses'), i, parseBody(req'.body))
     /\ (IsPut(req', "/api/goals/:id") /\ res'.status = 200) =>
          \E i \in 1..Len(readJson(goals)) :
            /\ Addressed(readJson(goals), i, req')
            /\ MergedAt(readJson(goals), readJson(goals'), i, parseBody(req'.body))]_vars

\* The second of two stored expenses has been given the identifier 1 by a PUT
\* and has kept its category; the first is still stored before it.
ShallowMergeWitness ==
  /\ IsPut(req, "/api/expenses/:id") /\ res.status = 200
  /\ req.id = "2" /\ req.body = [id |-> 1]
  /\ Len(readJson(expenses)) = 2
  /\ readJson(expenses)[2] = res.body
  /\ res.body.id = 1 /\ res.body.category = "food"
  /\ readJson(expenses)[1].id = 1

(***************************************************************************)
(* Properties of delete, over SpecOwn.                                     *)
(***************************************************************************)
IsDelete(r, path) == r.method = "DELETE" /\ r.path = path

\* after is before without its record i, the others in their order.
RemovedAt(before, after, i) ==
  /\ Len(after) = Len(before) - 1
  /\ \A j \in 1..Len(after) : after[j] = IF j < i THEN before[j] ELSE before[j + 1]

\* The first record of before the request addresses and owns is returned and
\* is the one record missing from after.
FirstRemoved(before, after, r, returned) ==
  \E i \in 1..Len(before) :
    /\ Addressed(before, i, r)
    /\ \A j \in 1..(i - 1) : ~Addressed(before, j, r)
    /\ returned = before[i]
    /\ RemovedAt(before, after, i)

\* C22: a DELETE answered 200 removes exactly one record, the first in the
\* order of the collection whose id is the requested one and whose userId is
\* the requester's, returns that record, and leaves all other records and
\* their order as they were.
DeleteFirstMatch ==
  [][/\ (IsDelete(req', "/api/expenses/:id") /\ res'.status = 200) =>
          FirstRemoved(readJson(expenses), readJson(expenses'), req', res'.body)
     /\ (IsDelete(req', "/api/goals/:id") /\ res'.status = 200) =>
          FirstRemoved(readJson(goals), readJson(goals'), req', res'.body)]_vars

\* An expense has been deleted and returned while a different expense with
\* the same id and owner, stored after it, is still there.
DeleteFirstMatchWitness ==
  /\ IsDelete(req, "/api/expenses/:id") /\ res.status = 200
  /\ \E i \in 1..Len(readJson(expenses)) :
       /\ Addressed(readJson(expenses), i, req)
       /\ readJson(expenses)[i] # res.body
       /\ readJson(expenses)[i].amount # res.body.amount

(***************************************************************************)
(* Properties of loads and saves on a disk that fails, over SpecStorage.   *)
(***************************************************************************)
\* C23: readJson never fails: it yields the empty sequence when the file is
\* missing, cannot be read, holds no valid JSON or holds JSON that is no
\* array, and the stored array otherwise; what it yields is never an error.
LoadNeverFails ==
  call.fn = "readJson" =>
    IF call.file.exists /\ ~Has(call.file, "fault")
    THEN call.ret = call.file.data
    ELSE call.ret = <<>>

\* readJson has answered [] on a users file that holds a user and cannot be
\* read.
LoadNeverFailsWitness ==
  /\ call.fn = "readJson"
  /\ call.file.exists /\ Has(call.file, "fault") /\ call.file.fault = "unreadable"
  /\ Len(call.file.data) > 0
  /\ call.ret = <<>>

\* C25: a failure of the storage write during a register, create, update,
\* delete or profile-update request is local to that request: each such
\* request ends with a response, an error response leaves the collections
\* as they were, and the server keeps running.
WriteFailureLocal ==
  [][(/\ req'.method \in {"POST", "PUT", "DELETE"}
      /\ req'.path \in {"/api/register", "/api/expenses", "/api/expenses/:id",
                        "/api/goals", "/api/goals/:id", "/api/profile"}) =>
       /\ res'.status >= 100
       /\ alive'
       /\ (res' # res /\ res'.status >= 400) => UNCHANGED <<users, expenses, goals>>]_vars

\* C26: a create or a register request that is answered (its write does
\* not fail) while the file of its collection is there and cannot be loaded is
\* answered 201 with identifier 1, and its save leaves the collection with the
\* one new record: what the file held is gone.
FailOpen ==
  [][(<<req', res'>> # <<req, res>> /\ res'.status # 0) =>
       /\ (/\ req'.method = "POST" /\ req'.path = "/api/expenses"
           /\ Fault(expenses) # "none") =>
            /\ res'.status = 201
            /\ res'.body.id = 1
            /\ expenses' = File(<<res'.body>>)
       /\ (/\ req'.method = "POST" /\ req'.path = "/api/register"
           /\ Fault(users) # "none") =>
            /\ res'.status = 201
            /\ Fault(users') = "none"
            /\ Len(readJson(users')) = 1
            /\ readJson(users')[1].id = 1
            /\ readJson(users')[1].username = req'.body.username]_vars

\* The users file was seen unreadable while it held alice; bob has since been
\* registered with 201 and is the one user stored, with identifier 1.
FailOpenWitness ==
  /\ call.fn = "readJson" /\ call.name = "users"
  /\ Fault(call.file) = "unreadable"
  /\ Len(call.file.data) = 1 /\ call.file.data[1].username = "alice"
  /\ req.method = "POST" /\ req.path = "/api/register" /\ req.body.username = "bob"
  /\ res.status = 201
  /\ Fault(users) = "none"
  /\ Len(readJson(users)) = 1
  /\ readJson(users)[1].username = "bob" /\ readJson(users)[1].id = 1

(***************************************************************************)
(* Properties of the password change, over SpecPassword.                   *)
(***************************************************************************)
\* C24: after a PUT /api/profile with a password p that is not blank has
\* been answered 200, the user's digest is the one a login with exactly p is
\* compared with, so that login succeeds, and a password that logged the user
\* in before and is not p no longer does.
PasswordChanged ==
  [][(/\ req'.method = "PUT" /\ req'.path = "/api/profile" /\ res'.status = 200
      /\ Has(req'.body, "password") /\ trim(req'.body.password) # "") =>
       /\ HasPassword(readJson(users'), req'.bearer, req'.body.password)
       /\ \A pw \in {"secret123"} \cup NewPasswords :
            (pw # req'.body.password /\ HasPassword(readJson(users), req'.bearer, pw)) =>
              ~HasPassword(readJson(users'), req'.bearer, pw)]_vars

====
